---- MODULE Spec2Model ----
(***************************************************************************)
(* A model of src/boltzmann/wrapper.py: the DuneStuffVector wrapper around *)
(* a native CommonDenseVector, the DuneStuffListVectorSpace factory, the   *)
(* Solver's parameter cache and the time-stepping loop of                  *)
(* BoltzmannDiscretizationBase._solve.                                     *)
(*                                                                         *)
(* Python objects live in two heaps: vecs (DuneStuffVector objects, the    *)
(* identity of a wrapper is its index; vecs[w] is the address held in      *)
(* w.impl) and mem (native CommonDenseVector objects, the identity of a    *)
(* native vector is its address; mem[a] is its storage).  The native       *)
(* library libboltzmann is not part of the repository: its operations are  *)
(* the Native... operators, written from the Numeric Buffer contract.      *)
(***************************************************************************)
EXTENDS Integers, Sequences, FiniteSets, TLC

\* ------------------------------------------------------------- bounds

\* largest vector dimension
MaxDim == 1
\* number of DuneStuffVector objects that may be created
MaxVec == 2
\* calls of set_rhs_operator_params that are followed
MaxCalls == 3
\* time steps the native solver has
MaxTime == 2
\* largest nt, dt and t_end (in a common integer unit of time) of a solve
MaxNt == 3
MaxDt == 2
MaxTEnd == 5
\* DuneStuffVector objects a Solver and its operators may have handed out
MaxWrapped == 3
\* vectors in an array returned by the native solver
MaxArr == 2
\* vectors in an array given to an operator
MaxU == 1

Dims == 0..MaxDim
\* buffer entries and scalars
Values == {0, 1}
\* scalar factors
Scalars == {0 - 1, 0, 1}
\* the storages a native vector may hold
Buffers == UNION {[1..d -> Values] : d \in Dims}
\* index sequences handed to dofs: possibly empty, possibly out of range
IndexSeqs == UNION {[1..k -> (0 - 1)..MaxDim] : k \in 0..2}

VARIABLES
    \* DuneStuffVector and DuneStuffListVectorSpace
    vecs, mem, arr, state, res,
    \* Solver
    last_mu, impl_mu, impl_time, sol_dim, n_req, n_set, requested,
    \* BoltzmannDiscretizationBase._solve
    pc, entry, nt, dt, t_end, half, u0, lfc, rhsc, solve_mu, n, U, U_half,
    U_last, final_dt, elapsed, returned,
    \* DuneStuffListVectorSpace.__eq__
    s1, s2, eq11, eq12, eq21

vvars == <<vecs, mem, arr, state, res>>
svars == <<last_mu, impl_mu, impl_time, sol_dim, n_req, n_set, requested>>
tvars == <<pc, entry, nt, dt, t_end, half, u0, lfc, rhsc, solve_mu, n, U,
           U_half, U_last, final_dt, elapsed, returned>>
evars == <<s1, s2, eq11, eq12, eq21>>
vars == <<vvars, svars, tvars, evars>>

\* ------------------------------------------------- results of a call

\* Python's None where a wrapper identity is expected
None == 0
NoErr == "ok"
\* what the last call did: the method, its receiver and argument (wrapper
\* identities), the wrapper it returned (None when it returned no wrapper),
\* the exception it raised, the number or array it returned, and the space
\* dimension or index list it was given
Result(op, self, other, r, err, val, arg) ==
    [op |-> op, self |-> self, other |-> other, ret |-> r, err |-> err,
     val |-> val, arg |-> arg]

\* ------------------------------------ libboltzmann.CommonDenseVector

NativeZeros(size) == [i \in 1..size |-> 0]
NativeCopy(b) == b
NativeScal(b, alpha) == [i \in 1..Len(b) |-> alpha * b[i]]
NativeAxpy(b, alpha, x) == [i \in 1..Len(b) |-> b[i] + alpha * x[i]]
NativeAdd(b, x) == [i \in 1..Len(b) |-> b[i] + x[i]]
NativeSub(b, x) == [i \in 1..Len(b) |-> b[i] - x[i]]
NativeMul(b, alpha) == [i \in 1..Len(b) |-> b[i] * alpha]
NativeNeg(b) == [i \in 1..Len(b) |-> 0 - b[i]]
RECURSIVE NativeDotUpTo(_, _, _)
NativeDotUpTo(b, x, k) ==
    IF k = 0 THEN 0 ELSE NativeDotUpTo(b, x, k - 1) + b[k] * x[k]
NativeDot(b, x) == NativeDotUpTo(b, x, Len(b))
\* binary native operations require operands of one length
NativeShapesMatch(b, x) == Len(b) = Len(x)

\* the model keeps buffer entries within Values
InRange(b) == \A i \in 1..Len(b) : b[i] \in Values

\* ------------------------------------------------------ DuneStuffVector

Wrappers == 1..Len(vecs)
\* the storage of wrapper w's native vector
Buf(w) == mem[vecs[w]]
\* the address a newly constructed native vector gets
NewAddr == Len(mem) + 1
\* the identity a newly constructed wrapper gets
NewVec == Len(vecs) + 1
CanCreate == Len(vecs) < MaxVec

\* DuneStuffVector(impl) where impl is a newly constructed native vector
WrapNew(b) ==
    /\ mem' = Append(mem, b)
    /\ vecs' = Append(vecs, NewAddr)

\* an in-place native operation on w.impl
Store(w, b) ==
    /\ mem' = [mem EXCEPT ![vecs[w]] = b]
    /\ vecs' = vecs

Raise(op, self, other, err, arg) ==
    /\ res' = Result(op, self, other, None, err, <<>>, arg)
    /\ UNCHANGED <<vecs, mem>>

\* numpy: an array is either a view of a native vector's storage (base is
\* the address, np.frombuffer) or owns its data (base = 0, ndarray.copy)
NumpyFromBuffer(a) == [base |-> a, own |-> <<>>]
\* what reading the array yields now
ArrayRead(x) == IF x.base # 0 THEN mem[x.base] ELSE x.own
NumpyCopy(x) == [base |-> 0, own |-> ArrayRead(x)]
\* dst[:] = data: data of the same length is copied in, data of length one is
\* broadcast, anything else is numpy's ValueError
NumpyBroadcastable(size, data) == Len(data) = size \/ Len(data) = 1
NumpyAssign(dst, data) ==
    IF Len(data) = Len(dst) THEN data ELSE [i \in 1..Len(dst) |-> data[1]]

\* an array handed to the caller, with its history: the wrapper it was taken
\* from, whether a copy was asked for and, if so, the values at that time
Exported(w, ensure_copy, x) ==
    [owner |-> w, ensure_copy |-> ensure_copy, base |-> x.base, own |-> x.own,
     exported |-> IF ensure_copy THEN Buf(w) ELSE <<>>]
NoArray ==
    [owner |-> None, ensure_copy |-> FALSE, base |-> 0, own |-> <<>>,
     exported |-> <<>>]

ToNumpyAlwaysCopies(w, ensure_copy) ==
    /\ arr' = Exported(w, ensure_copy, NumpyCopy(NumpyFromBuffer(vecs[w])))
    /\ res' = Result("to_numpy", w, None, None, NoErr, <<>>, <<>>)
    /\ UNCHANGED <<vecs, mem, state, svars, tvars, evars>>

ToNumpy(w, ensure_copy) ==
    /\ arr' = IF ensure_copy
              THEN Exported(w, TRUE, NumpyCopy(NumpyFromBuffer(vecs[w])))
              ELSE Exported(w, FALSE, NumpyFromBuffer(vecs[w]))
    /\ res' = Result("to_numpy", w, None, None, NoErr, <<>>, <<>>)
    /\ UNCHANGED <<vecs, mem, state, svars, tvars, evars>>

Data(w) ==
    /\ arr' = Exported(w, FALSE, NumpyFromBuffer(vecs[w]))
    /\ res' = Result("data", w, None, None, NoErr, <<>>, <<>>)
    /\ UNCHANGED <<vecs, mem, state, svars, tvars, evars>>

CopyAliasing(w, deep) ==
    /\ CanCreate
    /\ vecs' = Append(vecs, vecs[w])
    /\ mem' = mem
    /\ res' = Result("copy", w, None, NewVec, NoErr, <<>>, <<>>)
    /\ UNCHANGED <<arr, state, svars, tvars, evars>>

Copy(w, deep) ==
    /\ CanCreate
    /\ WrapNew(NativeCopy(Buf(w)))
    /\ res' = Result("copy", w, None, NewVec, NoErr, <<>>, <<>>)
    /\ UNCHANGED <<arr, state, svars, tvars, evars>>

Scal(w, alpha) ==
    /\ InRange(NativeScal(Buf(w), alpha))
    /\ Store(w, NativeScal(Buf(w), alpha))
    /\ res' = Result("scal", w, None, None, NoErr, <<>>, <<>>)
    /\ UNCHANGED <<arr, state, svars, tvars, evars>>

AxpyWithItself(w, alpha, x) ==
    /\ InRange(NativeAxpy(Buf(w), alpha, Buf(w)))
    /\ Store(w, NativeAxpy(Buf(w), alpha, Buf(w)))
    /\ res' = Result("axpy", w, x, None, NoErr, <<>>, <<>>)
    /\ UNCHANGED <<arr, state, svars, tvars, evars>>

Axpy(w, alpha, x) ==
    /\ IF NativeShapesMatch(Buf(w), Buf(x))
       THEN /\ InRange(NativeAxpy(Buf(w), alpha, Buf(x)))
            /\ Store(w, NativeAxpy(Buf(w), alpha, Buf(x)))
            /\ res' = Result("axpy", w, x, None, NoErr, <<>>, <<>>)
       ELSE Raise("axpy", w, x, "DimensionMismatch", <<>>)
    /\ UNCHANGED <<arr, state, svars, tvars, evars>>

Dot(w, x) ==
    /\ IF NativeShapesMatch(Buf(w), Buf(x))
       THEN /\ res' = Result("dot", w, x, None, NoErr,
                             <<NativeDot(Buf(w), Buf(x))>>, <<>>)
            /\ UNCHANGED <<vecs, mem>>
       ELSE Raise("dot", w, x, "DimensionMismatch", <<>>)
    /\ UNCHANGED <<arr, state, svars, tvars, evars>>

RECURSIVE SeqMin(_), SeqMax(_)
SeqMin(s) ==
    IF Len(s) = 1 THEN s[1]
    ELSE LET m == SeqMin(Tail(s)) IN IF s[1] < m THEN s[1] ELSE m
SeqMax(s) ==
    IF Len(s) = 1 THEN s[1]
    ELSE LET m == SeqMax(Tail(s)) IN IF s[1] > m THEN s[1] ELSE m

\* dofs without its first assertion, on a native vector whose item access
\* counts a negative index from the end
DofsNoLowerBound(w, idx) ==
    /\ IF Len(idx) = 0
       THEN res' = Result("dofs", w, None, None, NoErr, <<>>, idx)
       ELSE IF ~(SeqMax(idx) < Len(Buf(w)))
       THEN res' = Result("dofs", w, None, None, "AssertionError", <<>>, idx)
       ELSE IF Len(Buf(w)) = 0
       THEN res' = Result("dofs", w, None, None, "IndexError", <<>>, idx)
       ELSE res' = Result("dofs", w, None, None, NoErr,
                          [i \in 1..Len(idx) |->
                              Buf(w)[((idx[i] + Len(Buf(w))) % Len(Buf(w))) + 1]],
                          idx)
    /\ UNCHANGED <<vecs, mem, arr, state, svars, tvars, evars>>

Dofs(w, idx) ==
    /\ IF Len(idx) = 0
       THEN res' = Result("dofs", w, None, None, NoErr, <<>>, idx)
       ELSE IF ~(0 <= SeqMin(idx))
       THEN res' = Result("dofs", w, None, None, "AssertionError", <<>>, idx)
       ELSE IF ~(SeqMax(idx) < Len(Buf(w)))
       THEN res' = Result("dofs", w, None, None, "AssertionError", <<>>, idx)
       ELSE res' = Result("dofs", w, None, None, NoErr,
                          [i \in 1..Len(idx) |-> Buf(w)[idx[i] + 1]], idx)
    /\ UNCHANGED <<vecs, mem, arr, state, svars, tvars, evars>>

Add(w, x) ==
    /\ IF NativeShapesMatch(Buf(w), Buf(x))
       THEN /\ CanCreate
            /\ InRange(NativeAdd(Buf(w), Buf(x)))
            /\ WrapNew(NativeAdd(Buf(w), Buf(x)))
            /\ res' = Result("add", w, x, NewVec, NoErr, <<>>, <<>>)
       ELSE Raise("add", w, x, "DimensionMismatch", <<>>)
    /\ UNCHANGED <<arr, state, svars, tvars, evars>>

IAdd(w, x) ==
    /\ IF NativeShapesMatch(Buf(w), Buf(x))
       THEN /\ InRange(NativeAdd(Buf(w), Buf(x)))
            /\ Store(w, NativeAdd(Buf(w), Buf(x)))
            /\ res' = Result("iadd", w, x, w, NoErr, <<>>, <<>>)
       ELSE Raise("iadd", w, x, "DimensionMismatch", <<>>)
    /\ UNCHANGED <<arr, state, svars, tvars, evars>>

Sub(w, x) ==
    /\ IF NativeShapesMatch(Buf(w), Buf(x))
       THEN /\ CanCreate
            /\ InRange(NativeSub(Buf(w), Buf(x)))
            /\ WrapNew(NativeSub(Buf(w), Buf(x)))
            /\ res' = Result("sub", w, x, NewVec, NoErr, <<>>, <<>>)
       ELSE Raise("sub", w, x, "DimensionMismatch", <<>>)
    /\ UNCHANGED <<arr, state, svars, tvars, evars>>

ISub(w, x) ==
    /\ IF NativeShapesMatch(Buf(w), Buf(x))
       THEN /\ InRange(NativeSub(Buf(w), Buf(x)))
            /\ Store(w, NativeSub(Buf(w), Buf(x)))
            /\ res' = Result("isub", w, x, w, NoErr, <<>>, <<>>)
       ELSE Raise("isub", w, x, "DimensionMismatch", <<>>)
    /\ UNCHANGED <<arr, state, svars, tvars, evars>>

Mul(w, alpha) ==
    /\ CanCreate
    /\ InRange(NativeMul(Buf(w), alpha))
    /\ WrapNew(NativeMul(Buf(w), alpha))
    /\ res' = Result("mul", w, None, NewVec, NoErr, <<>>, <<>>)
    /\ UNCHANGED <<arr, state, svars, tvars, evars>>

Neg(w) ==
    /\ CanCreate
    /\ WrapNew(NativeNeg(Buf(w)))
    /\ res' = Result("neg", w, None, NewVec, NoErr, <<>>, <<>>)
    /\ UNCHANGED <<arr, state, svars, tvars, evars>>

\* the state handed on: the native type (there is one, CommonDenseVector) and
\* self.data, a view.  pickled tells whether the state then goes through
\* pickle.dumps and loads (its array then owns a copy of the values) or is
\* handed to __setstate__ as it is.
GetState(w, pickled) ==
    /\ state' = IF pickled
                THEN Exported(w, TRUE, NumpyCopy(NumpyFromBuffer(vecs[w])))
                ELSE Exported(w, FALSE, NumpyFromBuffer(vecs[w]))
    /\ res' = Result("getstate", w, None, None, NoErr, <<>>, <<>>)
    /\ UNCHANGED <<vecs, mem, arr, svars, tvars, evars>>

\* __setstate__ that keeps the native vector the state's array views
SetStateByReference ==
    /\ state.owner # None
    /\ CanCreate
    /\ IF state.base # 0
       THEN /\ vecs' = Append(vecs, state.base)
            /\ mem' = mem
       ELSE WrapNew(state.own)
    /\ res' = Result("setstate", NewVec, state.owner, None, NoErr, <<>>, <<>>)
    /\ UNCHANGED <<arr, state, svars, tvars, evars>>

\* __setstate__ on the object pickle makes with __new__
SetState ==
    /\ state.owner # None
    /\ CanCreate
    /\ WrapNew(NumpyAssign(NativeZeros(Len(ArrayRead(state))), ArrayRead(state)))
    /\ res' = Result("setstate", NewVec, state.owner, None, NoErr, <<>>, <<>>)
    /\ UNCHANGED <<arr, state, svars, tvars, evars>>

\* ------------------------------------------- DuneStuffListVectorSpace

\* DuneStuffVector.make_zeros(subtype), subtype = (CommonDenseVector, d)
MakeZeros(d) ==
    /\ CanCreate
    /\ WrapNew(NativeZeros(d))
    /\ res' = Result("make_zeros", None, None, NewVec, NoErr, <<>>, <<d>>)
    /\ UNCHANGED <<arr, state, svars, tvars, evars>>

ZeroVector(d) ==
    /\ CanCreate
    /\ WrapNew(NativeZeros(d))
    /\ res' = Result("zero_vector", None, None, NewVec, NoErr, <<>>, <<d>>)
    /\ UNCHANGED <<arr, state, svars, tvars, evars>>

\* obj is the native vector at address a: one that exists, or (a = NewAddr)
\* one an external routine has just built with storage b
MakeVector(d, a, b) ==
    /\ CanCreate
    /\ IF a = NewAddr
       THEN mem' = Append(mem, b)
       ELSE /\ b = <<>>
            /\ mem' = mem
    /\ vecs' = Append(vecs, a)
    /\ res' = Result("make_vector", None, None, NewVec, NoErr, <<>>, <<d>>)
    /\ UNCHANGED <<arr, state, svars, tvars, evars>>

VectorFromNumpy(d, data, ensure_copy) ==
    /\ IF NumpyBroadcastable(d, data)
       THEN /\ CanCreate
            /\ WrapNew(NumpyAssign(NativeZeros(d), data))
            /\ res' = Result("vector_from_numpy", None, None, NewVec, NoErr,
                             <<>>, <<d>>)
       ELSE Raise("vector_from_numpy", None, None, "ValueError", <<d>>)
    /\ UNCHANGED <<arr, state, svars, tvars, evars>>

\* ----------------------------------------- DuneStuffListVectorSpace.__eq__

OurType == "DuneStuffListVectorSpace"
\* id_ = None
NoneId == "None"
Ids == {NoneId, "STATE", "FLUX"}
NoSpace == [type |-> "unset", dim |-> 0, id |-> NoneId]
Unset == "unset"
PyBool(b) == IF b THEN "True" ELSE "False"

\* cls(dim, id_)
NewSpace(dim, id_) == [type |-> OurType, dim |-> dim, id |-> id_]

SpaceEqIgnoringId(self, other) ==
    other.type = OurType /\ self.dim = other.dim

SpaceEq(self, other) ==
    other.type = OurType /\ self.dim = other.dim /\ self.id = other.id

\* a new object bound to s1 or s2; what was compared before is forgotten
Bind(slot, space) ==
    /\ IF slot = 1 THEN s1' = space /\ s2' = s2 ELSE s2' = space /\ s1' = s1
    /\ eq11' = Unset /\ eq12' = Unset /\ eq21' = Unset
    /\ UNCHANGED <<vvars, svars, tvars>>

SpaceInit(slot, dim, id_) == Bind(slot, NewSpace(dim, id_))

SpaceFromVectorObj(slot, vec, id_) == Bind(slot, NewSpace(Len(vec), id_))

SpaceFromDim(slot, dim, id_) == Bind(slot, NewSpace(dim, id_))

\* a vector space of another class of the framework
ForeignSpace(slot, dim, id_) ==
    Bind(slot, [type |-> "NumpyVectorSpace", dim |-> dim, id |-> id_])

\* s1 == s1, s1 == s2 and, where s2 is of this class, s2 == s1
Compare ==
    /\ s1.type = OurType
    /\ s2.type # "unset"
    /\ eq11' = PyBool(SpaceEq(s1, s1))
    /\ eq12' = PyBool(SpaceEq(s1, s2))
    /\ eq21' = IF s2.type = OurType THEN PyBool(SpaceEq(s2, s1)) ELSE Unset
    /\ UNCHANGED <<s1, s2, vvars, svars, tvars>>

\* ------------------------------------------------------------- Solver

\* the defaults of set_rhs_operator_params
DefaultMu == <<1, 0, 1, 10>>
\* last_mu = None
NoMu == <<>>
\* the cross sections that are asked for: the defaults given explicitly and
\* two other tuples
ParamTuples == {DefaultMu, <<0, 1, 0, 1>>, <<1, 1, 1, 1>>}
\* the positional arguments of a call: the first none to four of a tuple
ArgLists == {SubSeq(t, 1, k) : t \in ParamTuples, k \in 0..4}
\* mu = (sigma_s_scattering, sigma_s_absorbing, sigma_t_scattering,
\* sigma_t_absorbing): the arguments given, then the defaults
MuOf(args) ==
    [i \in 1..4 |-> IF i <= Len(args) THEN args[i] ELSE DefaultMu[i]]

\* a body of set_rhs_operator_params that always hands mu to the native
\* solver and never remembers it
SetMuUncached(mu) ==
    /\ impl_mu' = mu
    /\ n_set' = n_set + 1
    /\ last_mu' = last_mu
    /\ requested' = mu
    /\ n_req' = n_req + 1

\* the body of set_rhs_operator_params.  n_req, n_set and requested are
\* history: the calls so far, the calls of the native setter so far, and the
\* tuple of the latest call
SetMu(mu) ==
    /\ IF mu # last_mu
       THEN /\ last_mu' = mu
            /\ impl_mu' = mu
            /\ n_set' = n_set + 1
       ELSE UNCHANGED <<last_mu, impl_mu, n_set>>
    /\ requested' = mu
    /\ n_req' = n_req + 1

SetRhsOperatorParams(args) ==
    /\ n_req < MaxCalls
    /\ SetMu(MuOf(args))
    /\ UNCHANGED <<impl_time, sol_dim, vvars, tvars, evars>>

\* self.solution_space: DuneStuffListVectorSpace(dim) with no id
SolutionSpace == NewSpace(sol_dim, NoneId)

\* the lists of native vectors a call of the native solver may return: the
\* solver is not part of the repository, so the vectors are any of the
\* solution space's dimension; lists of equal vectors with all entries equal
\* stand for them
NativeLists(k) == {[j \in 1..k |-> [i \in 1..sol_dim |-> v]] : v \in Values}

CanWrap(k) == Len(vecs) + k <= MaxWrapped

\* solution_space.make_array(objs): make_vector wraps every native vector of
\* the list in a DuneStuffVector of its own, without looking at it
MakeArray(objs) ==
    /\ mem' = mem \o objs
    /\ vecs' = vecs \o [i \in 1..Len(objs) |-> Len(mem) + i]
    /\ res' = Result("make_array", None, None, None, NoErr,
                     [i \in 1..Len(objs) |-> Len(vecs) + i], <<>>)
    /\ UNCHANGED <<arr, state>>

\* the arrays handed to an operator: a list of wrappers and the space the
\* array says it belongs to.  Arrays of the solution space hold up to MaxU
\* vectors; arrays of another dimension, of another id or of another class
\* hold at most one, since only their space is looked at.
Arrays ==
    [list : UNION {[1..k -> Wrappers] : k \in 0..MaxU},
     space : {NewSpace(sol_dim, NoneId)}]
    \cup
    [list : UNION {[1..k -> Wrappers] : k \in 0..1},
     space : {NewSpace(d, NoneId) : d \in Dims \ {sol_dim}}
             \cup {NewSpace(sol_dim, "STATE"),
                   [type |-> "NumpyVectorSpace", dim |-> sol_dim,
                    id |-> NoneId]}]

\* U in self.source: the space of U equals the solution space
InSource(A) == A.space.type = OurType /\ SpaceEq(A.space, SolutionSpace)

\* assert U in self.source failed: nothing else happened
AssertSource ==
    /\ res' = Result("apply", None, None, None, "AssertionError", <<>>, <<>>)
    /\ UNCHANGED <<vecs, mem, arr, state>>

\* Solver.solve: the native solver runs to its end, and every vector it
\* returns is wrapped
SolverSolve(with_half_steps, objs) ==
    /\ CanWrap(Len(objs))
    /\ impl_time' = MaxTime
    /\ MakeArray(objs)
    /\ UNCHANGED <<last_mu, impl_mu, sol_dim, n_req, n_set, requested, tvars,
                   evars>>

SolverNextNTimeSteps(k, with_half_steps, objs) ==
    /\ CanWrap(Len(objs))
    /\ impl_time' = IF impl_time + k < MaxTime THEN impl_time + k ELSE MaxTime
    /\ MakeArray(objs)
    /\ UNCHANGED <<last_mu, impl_mu, sol_dim, n_req, n_set, requested, tvars,
                   evars>>

SolverReset ==
    /\ impl_time' = 0
    /\ UNCHANGED <<last_mu, impl_mu, sol_dim, n_req, n_set, requested, vvars,
                   tvars, evars>>

SolverSetCurrentTime(time) ==
    /\ impl_time' = time
    /\ UNCHANGED <<last_mu, impl_mu, sol_dim, n_req, n_set, requested, vvars,
                   tvars, evars>>

\* Solver.get_initial_values: an array of one wrapper around the vector the
\* native solver returns
SolverGetInitialValues(objs) ==
    /\ CanWrap(1)
    /\ MakeArray(objs)
    /\ UNCHANGED <<svars, tvars, evars>>

\* LFOperator.apply: one native result per vector of U, each wrapped.  The
\* time and step length of mu only reach the native operator.
LfOperatorApply(A) ==
    /\ IF InSource(A)
       THEN /\ CanWrap(Len(A.list))
            /\ \E objs \in NativeLists(Len(A.list)) :
                   MakeArray(objs)
       ELSE AssertSource
    /\ UNCHANGED <<svars, tvars, evars>>

\* GodunovOperator.apply
GodunovOperatorApply(A) ==
    /\ IF InSource(A)
       THEN /\ CanWrap(Len(A.list))
            /\ \E objs \in NativeLists(Len(A.list)) :
                   MakeArray(objs)
       ELSE AssertSource
    /\ UNCHANGED <<svars, tvars, evars>>

\* RHSOperator.apply: the assertion, then the four entries of mu['s'] as
\* floats go to set_rhs_operator_params, then one native result per vector
\* of U, each wrapped.  The native operator leaves the solver's parameters
\* and time alone.
RhsOperatorApply(A, s) ==
    /\ IF InSource(A)
       THEN /\ n_req < MaxCalls
            /\ CanWrap(Len(A.list))
            /\ SetMu(s)
            /\ \E objs \in NativeLists(Len(A.list)) :
                   MakeArray(objs)
       ELSE /\ AssertSource
            /\ UNCHANGED <<last_mu, impl_mu, n_req, n_set, requested>>
    /\ UNCHANGED <<impl_time, sol_dim, tvars, evars>>

\* ----------------------------- BoltzmannDiscretizationBase._solve

\* _solve of a discretization whose initial_data is the array of one vector
\* solver.get_initial_values() returned, whose lf is LFOperator(solver) and
\* whose rhs is RHSOperator(solver).  The vectors have one entry.

\* what the native operators compute on a vector of one entry: the flux
\* operator is linear and reads the time t it is given, the right-hand side
\* is constant
LfApply(u, t, dtp) == lfc * (u + t)
RhsApply(v) == rhsc

\* the half step and the full step of time step k taken with length d
HalfStep(u, k, d) == u - LfApply(u, k * dt, dt) * d
FullStep(u, k, d) == HalfStep(u, k, d) + RhsApply(HalfStep(u, k, d)) * d

\* the wrapper of the initial data: VectorOperator keeps a copy of the array
\* solver.get_initial_values() returned, made after it
InitialData == 2
\* the class whose _solve is called
Direct == "BoltzmannDiscretizationBase"
Dune == "DuneDiscretization"
\* the parameter DuneDiscretization.__init__ applies the right-hand side with
ZeroMu == <<0, 0, 0, 0>>

\* DuneStuffVector(impl) around new native vectors holding bufs, one after
\* another
WrapEach(bufs) ==
    /\ mem' = mem \o bufs
    /\ vecs' = vecs \o [i \in 1..Len(bufs) |-> Len(mem) + i]
\* the storage of the vector of A * alpha, A an array of one vector holding
\* b: a copy of A (DuneStuffVector.copy), then DuneStuffVector.scal on it
ArrayMul(b, alpha) == NativeScal(NativeCopy(b), alpha)
\* the storage of the vector of A + X (alpha = 1) and of A - X (alpha = -1):
\* a copy of A, then DuneStuffVector.axpy on it
ArrayAxpy(b, alpha, x) == NativeAxpy(NativeCopy(b), alpha, x)

\* DuneDiscretization._solve hands mu to solve of the generic
\* discretization, which parses it and fails on its assertion when mu is
\* None, before _solve is entered.  Then lines 86 to 91: U is a copy of the
\* initial data and U_last a copy of U; rhs.assemble(mu) fixes mu in the
\* parametric right-hand side and fails on its assertion when mu is None;
\* then final_dt and the assertion on it
SolveBegin ==
    /\ pc = "start"
    /\ IF entry = Dune /\ solve_mu = NoMu
       THEN /\ pc' = "raised"
            /\ res' = Result("solve", None, None, None, "AssertionError",
                             <<>>, <<>>)
            /\ UNCHANGED <<vecs, mem, U, U_last, U_half, n, final_dt>>
       ELSE /\ WrapEach(<<NativeCopy(Buf(InitialData)),
                          NativeCopy(NativeCopy(Buf(InitialData)))>>)
            /\ U' = <<Len(vecs) + 1>>
            /\ U_last' = Len(vecs) + 2
            /\ U_half' = <<>>
            /\ n' = 0
            /\ IF solve_mu = NoMu
               THEN /\ pc' = "raised"
                    /\ final_dt' = final_dt
                    /\ res' = Result("assemble", None, None, None,
                                     "AssertionError", <<>>, <<>>)
               ELSE /\ final_dt' = t_end - (nt - 1) * dt
                    /\ pc' = IF final_dt' >= 0 /\ final_dt' <= dt
                             THEN "loop" ELSE "aborted"
                    /\ res' = IF pc' = "aborted"
                              THEN Result("_solve", None, None, None,
                                          "AssertionError", <<>>, <<>>)
                              ELSE res
    /\ UNCHANGED <<entry, nt, dt, t_end, half, u0, lfc, rhsc, solve_mu,
                   elapsed, returned>>
    /\ UNCHANGED <<arr, state, svars, evars>>

\* lines 95 to 102: one pass of the loop with step length d.  lf.apply wraps
\* the native result (U_last is of the solver's space, so its assertion
\* holds); lf * d and V = U_last - lf * d are new arrays; V is copied into
\* U_half when half steps are asked for; rhs.apply goes, with the mu fixed
\* at line 89, through set_rhs_operator_params and wraps the native result;
\* rhs * d and U_last = V + rhs * d are new arrays, and a copy of U_last is
\* appended to U.  elapsed is history, the sum of the step lengths used so
\* far.
SolvePass(d) ==
    /\ pc = "loop"
    /\ n < nt
    /\ LET lf == <<LfApply(Buf(U_last)[1], n * dt, dt)>>
           lfd == ArrayMul(lf, d)
           V == ArrayAxpy(Buf(U_last), 0 - 1, lfd)
           first == IF half THEN <<lf, lfd, V, NativeCopy(V)>> ELSE <<lf, lfd, V>>
           made == Len(vecs) + Len(first)
           rh == <<RhsApply(V[1])>>
           rhd == ArrayMul(rh, d)
           last == ArrayAxpy(V, 1, rhd)
       IN /\ U_half' = IF half THEN Append(U_half, Len(vecs) + 4) ELSE U_half
          /\ SetMu(solve_mu)
          /\ WrapEach(first \o <<rh, rhd, last, NativeCopy(last)>>)
          /\ U_last' = made + 3
          /\ U' = Append(U, made + 4)
          /\ elapsed' = elapsed + d
          /\ n' = n + 1
    /\ UNCHANGED <<pc, entry, nt, dt, t_end, half, u0, lfc, rhsc, solve_mu,
                   final_dt, returned>>
    /\ UNCHANGED <<arr, state, res, impl_time, sol_dim, evars>>

\* a loop where every time step has length self.dt
SolveStepUniform == SolvePass(dt)

\* lines 92 to 102: the pass for n, the last one with length final_dt
SolveStep == SolvePass(IF n # nt - 1 THEN dt ELSE final_dt)

\* lines 103 to 106
SolveReturn ==
    /\ pc = "loop"
    /\ n = nt
    /\ pc' = "done"
    /\ returned' = IF half THEN <<U, U_half>> ELSE <<U>>
    /\ UNCHANGED <<entry, nt, dt, t_end, half, u0, lfc, rhsc, solve_mu, n, U,
                   U_half, U_last, final_dt, elapsed>>
    /\ UNCHANGED <<vvars, svars, evars>>

\* ---------------------------------------------------- specifications

VecInit ==
    /\ vecs = <<>>
    /\ mem = <<>>
    /\ arr = NoArray
    /\ state = NoArray
    /\ res = Result("init", None, None, None, NoErr, <<>>, <<>>)

\* Solver.__init__: the native solver holds the parameters it was built with
SolverInit ==
    /\ last_mu = NoMu
    /\ impl_mu \in {DefaultMu, <<0, 0, 0, 0>>}
    /\ impl_time = 0
    /\ sol_dim \in Dims
    /\ n_req = 0
    /\ n_set = 0
    /\ requested = NoMu

\* a Solver of dimension one as the discretization's constructor leaves it.
\* DuneDiscretization.__init__ wraps the initial values, of which
\* VectorOperator keeps a copy, makes the zero array of their space and
\* applies the right-hand side to it with the parameter (0, 0, 0, 0), which
\* sets the Solver's parameters and wraps the result, of which
\* ConstantOperator keeps a copy.  A BoltzmannDiscretizationBase built
\* directly on a new Solver, a VectorOperator of its initial values and its
\* operators has done the first two of these only, and its _solve is the
\* one that is called.
SolveSolverInit ==
    /\ impl_time = 0
    /\ sol_dim = 1
    /\ \/ /\ entry \in {Dune, Direct}
          /\ last_mu = ZeroMu
          /\ impl_mu = ZeroMu
          /\ requested = ZeroMu
          /\ n_req = 1
          /\ n_set = 1
          /\ vecs = <<1, 2, 3, 4, 5>>
          /\ mem = <<<<u0>>, NativeCopy(<<u0>>), NativeZeros(1),
                     <<RhsApply(0)>>, NativeCopy(<<RhsApply(0)>>)>>
       \/ /\ entry = Direct
          /\ last_mu = NoMu
          /\ impl_mu = DefaultMu
          /\ requested = NoMu
          /\ n_req = 0
          /\ n_set = 0
          /\ vecs = <<1, 2>>
          /\ mem = <<<<u0>>, NativeCopy(<<u0>>)>>

\* the discretization constructed and _solve called: mu is None or a
\* parameter with four cross sections
SolveInit ==
    /\ pc = "start"
    /\ nt \in 0..MaxNt
    /\ dt \in 0..MaxDt
    /\ t_end \in 0..MaxTEnd
    /\ half \in BOOLEAN
    /\ u0 \in {0, 1}
    /\ lfc \in {0, 1}
    /\ rhsc \in {0, 1}
    /\ solve_mu \in {NoMu, ZeroMu} \cup ParamTuples
    /\ n = 0
    /\ U = <<>>
    /\ U_half = <<>>
    /\ U_last = None
    /\ final_dt = 0
    /\ elapsed = 0
    /\ returned = <<>>
    /\ arr = NoArray
    /\ state = NoArray
    /\ res = Result("init", None, None, None, NoErr, <<>>, <<>>)
    /\ SolveSolverInit

SpaceStart ==
    /\ s1 = NoSpace
    /\ s2 = NoSpace
    /\ eq11 = Unset
    /\ eq12 = Unset
    /\ eq21 = Unset

\* a component that a specification leaves alone stays as constructed
SolverIdle ==
    /\ last_mu = NoMu
    /\ impl_mu = DefaultMu
    /\ impl_time = 0
    /\ sol_dim = 0
    /\ n_req = 0
    /\ n_set = 0
    /\ requested = NoMu

SolveIdle ==
    /\ pc = "start"
    /\ entry = Direct
    /\ nt = 0
    /\ dt = 0
    /\ t_end = 0
    /\ half = FALSE
    /\ u0 = 0
    /\ lfc = 0
    /\ rhsc = 0
    /\ solve_mu = NoMu
    /\ n = 0
    /\ U = <<>>
    /\ U_half = <<>>
    /\ U_last = 0
    /\ final_dt = 0
    /\ elapsed = 0
    /\ returned = <<>>

\* nothing constructed yet
Init == VecInit /\ SolverIdle /\ SolveIdle /\ SpaceStart
\* a Solver constructed
InitSolver == VecInit /\ SolverInit /\ SolveIdle /\ SpaceStart
\* a discretization constructed and _solve called
InitSolve == SolveInit /\ SpaceStart

CreateNext ==
    \/ \E d \in Dims : ZeroVector(d)
    \/ \E d \in Dims : MakeZeros(d)
    \/ \E d \in Dims, data \in Buffers, c \in BOOLEAN : VectorFromNumpy(d, data, c)

InPlaceNext ==
    \/ \E w \in Wrappers, alpha \in Scalars : Scal(w, alpha)
    \/ \E w \in Wrappers, x \in Wrappers, alpha \in Scalars : Axpy(w, alpha, x)
    \/ \E w \in Wrappers, x \in Wrappers : IAdd(w, x)
    \/ \E w \in Wrappers, x \in Wrappers : ISub(w, x)

AllocatingNext ==
    \/ \E w \in Wrappers, deep \in BOOLEAN : Copy(w, deep)
    \/ \E w \in Wrappers, x \in Wrappers : Add(w, x)
    \/ \E w \in Wrappers, x \in Wrappers : Sub(w, x)
    \/ \E w \in Wrappers, alpha \in Scalars : Mul(w, alpha)
    \/ \E w \in Wrappers : Neg(w)

ReadNext ==
    \/ \E w \in Wrappers, x \in Wrappers : Dot(w, x)
    \/ \E w \in Wrappers, idx \in IndexSeqs : Dofs(w, idx)

ExportNext ==
    \/ \E w \in Wrappers, c \in BOOLEAN : ToNumpy(w, c)
    \/ \E w \in Wrappers : Data(w)

PickleNext ==
    \/ \E w \in Wrappers, p \in BOOLEAN : GetState(w, p)
    \/ SetState

WrapNext ==
    \E d \in Dims, a \in 1..NewAddr, b \in Buffers : MakeVector(d, a, b)

SolverNext ==
    \/ \E args \in ArgLists : SetRhsOperatorParams(args)
    \/ \E h \in BOOLEAN, k \in 0..MaxArr :
          \E objs \in NativeLists(k) : SolverSolve(h, objs)
    \/ \E j \in 1..MaxTime, h \in BOOLEAN, k \in 0..MaxArr :
          \E objs \in NativeLists(k) : SolverNextNTimeSteps(j, h, objs)
    \/ SolverReset
    \/ \E t \in 0..MaxTime : SolverSetCurrentTime(t)
    \/ \E objs \in NativeLists(1) : SolverGetInitialValues(objs)

OperatorNext ==
    \/ \E A \in Arrays : LfOperatorApply(A)
    \/ \E A \in Arrays : GodunovOperatorApply(A)
    \/ \E A \in Arrays, s \in ParamTuples : RhsOperatorApply(A, s)

SolveNext ==
    \/ SolveBegin
    \/ SolveStep
    \/ SolveReturn

SpaceNext ==
    \/ \E slot \in {1, 2}, d \in Dims, i \in Ids : SpaceInit(slot, d, i)
    \/ \E slot \in {1, 2}, v \in Buffers, i \in Ids : SpaceFromVectorObj(slot, v, i)
    \/ \E slot \in {1, 2}, d \in Dims, i \in Ids : SpaceFromDim(slot, d, i)
    \/ \E slot \in {1, 2}, d \in Dims, i \in Ids : ForeignSpace(slot, d, i)
    \/ Compare

\* the vector wrapper and the vector space, make_vector included
Spec ==
    /\ Init
    /\ [][CreateNext \/ InPlaceNext \/ AllocatingNext \/ ReadNext \/ WrapNext]_vars

\* every operation except the aliasing path make_vector
SpecOwning ==
    /\ Init
    /\ [][CreateNext \/ InPlaceNext \/ AllocatingNext \/ ReadNext]_vars

\* arrays exported with to_numpy and data, and in-place changes after them
SpecExport ==
    /\ Init
    /\ [][CreateNext \/ InPlaceNext \/ ExportNext]_vars

\* __getstate__ and __setstate__
SpecPickle ==
    /\ Init
    /\ [][CreateNext \/ InPlaceNext \/ PickleNext]_vars

\* a Solver and the operators built on it
SpecSolver ==
    /\ InitSolver
    /\ [][SolverNext \/ OperatorNext]_vars

\* _solve is straight-line code and a for loop run by one thread: it goes on
\* as long as it has a next statement
SpecSolve ==
    /\ InitSolve
    /\ [][SolveNext]_vars
    /\ WF_vars(SolveNext)

SpecSpace ==
    /\ Init
    /\ [][SpaceNext]_vars

\* ----------------------------------------------------------- claims

InPlaceOps == {"scal", "axpy", "iadd", "isub"}
BinaryOps == {"add", "sub", "iadd", "isub", "axpy", "dot"}
SpaceOps == {"zero_vector", "make_vector", "vector_from_numpy"}

\* an in-place operation changes no wrapper's values but its receiver's
MutationIsLocal ==
    res'.op \in InPlaceOps =>
        \A v \in Wrappers : v # res'.self => Buf(v)' = Buf(v)

NoSharedBuffer ==
    \A v, w \in Wrappers : v # w => vecs[v] # vecs[w]

\* C1: after any sequence of zero_vector, vector_from_numpy, copy, +, -,
\* scalar *, unary -, scal, axpy, += and -= no two distinct wrappers hold the
\* same native vector, and an in-place operation on one wrapper leaves the
\* values of every other wrapper as they were.
C1_NoSharedBuffer == []NoSharedBuffer /\ [][MutationIsLocal]_vars

\* a copy and its source with different values after an in-place operation
\* on one of them
C1_Witness ==
    /\ Len(vecs) = 2
    /\ res.op \in InPlaceOps
    /\ res.err = NoErr
    /\ Len(Buf(1)) = Len(Buf(2))
    /\ Len(Buf(1)) > 0
    /\ Buf(1) # Buf(2)

\* C2: scal, axpy, += and -= each return the wrapper they were called on.
C2_MutatorsReturnSelf ==
    (res.op \in InPlaceOps /\ res.err = NoErr) => res.ret = res.self

\* C3: a vector that zero_vector, make_vector or vector_from_numpy of a space
\* of dimension d returns has a buffer of length d.
C3_SpaceVectorsHaveSpaceDim ==
    (res.op \in SpaceOps /\ res.ret # None) =>
        Len(Buf(res.ret)) = res.arg[1]

\* C4: for two spaces of this class, s1 == s2 is true exactly when their
\* dimensions are equal and their ids are equal (None only equal to None);
\* s2 == s1 gives the same answer and s1 == s1 is true.
C4_SpaceEqIffFieldsMatch ==
    (eq12 # Unset /\ s1.type = OurType /\ s2.type = OurType) =>
        /\ eq12 = PyBool(s1.dim = s2.dim /\ s1.id = s2.id)
        /\ eq21 = eq12
        /\ eq11 = "True"

\* two spaces of one dimension, one without an id and one with, found unequal
C4_Witness ==
    /\ s1.type = OurType
    /\ s2.type = OurType
    /\ s1.dim = s2.dim
    /\ s1.id = NoneId
    /\ s2.id # NoneId
    /\ eq12 = "False"
    /\ eq21 = "False"

DofsOutOfRange(idx, d) ==
    /\ Len(idx) > 0
    /\ \E i \in 1..Len(idx) : idx[i] < 0 \/ idx[i] >= d

\* C5: dofs with a non-empty index list that holds an index below 0 or not
\* below the dimension raises (the failed assertion is the code's
\* IndexOutOfRange), returns no values and leaves every buffer as it was.
C5_DofsOutOfRangeFails ==
    /\ [](  (res.op = "dofs" /\ DofsOutOfRange(res.arg, Len(Buf(res.self))))
            => (res.err = "AssertionError" /\ res.val = <<>>))
    /\ [][res'.op = "dofs" => (mem' = mem /\ vecs' = vecs)]_vars

\* dofs([0, i]) with i out of range on a vector that has an entry 0
C5_Witness ==
    /\ res.op = "dofs"
    /\ Len(res.arg) = 2
    /\ res.arg[1] = 0
    /\ Len(Buf(res.self)) > 0
    /\ res.arg[2] >= Len(Buf(res.self))
    /\ res.err = "AssertionError"

\* C6: +, -, +=, -=, axpy and dot on two vectors of different dimensions
\* raise DimensionMismatch, return nothing and leave every buffer as it was.
C6_DimensionMismatchFails ==
    /\ [](  (res.op \in BinaryOps
             /\ Len(Buf(res.self)) # Len(Buf(res.other)))
            => (res.err = "DimensionMismatch" /\ res.ret = None
                /\ res.val = <<>>))
    /\ [][res'.err = "DimensionMismatch" => (mem' = mem /\ vecs' = vecs)]_vars

\* axpy of a vector of another dimension onto a vector with a non-zero entry
C6_Witness ==
    /\ res.op = "axpy"
    /\ res.err = "DimensionMismatch"
    /\ Len(Buf(res.self)) > Len(Buf(res.other))
    /\ \E i \in 1..Len(Buf(res.self)) : Buf(res.self)[i] # 0

\* C7: the wrapper __setstate__ builds from the state of v is another object
\* with a native vector no other wrapper holds, of the dimension of v and with
\* the values of the state: those v has now when the state is handed on as it
\* is, those v had at __getstate__ when the state was pickled; an in-place
\* operation on either wrapper later leaves the other as it was.
C7_StateRoundTrip ==
    /\ [](  res.op = "setstate" =>
            /\ res.self # res.other
            /\ \A u \in Wrappers : u # res.self => vecs[u] # vecs[res.self]
            /\ Len(Buf(res.self)) = Len(Buf(res.other))
            /\ Buf(res.self) = ArrayRead(state)
            /\ (~state.ensure_copy => Buf(res.self) = Buf(res.other))
            /\ (state.ensure_copy => Buf(res.self) = state.exported))
    /\ [][MutationIsLocal]_vars

\* a vector with a non-zero entry rebuilt with equal values
C7_Witness ==
    /\ res.op = "setstate"
    /\ Buf(res.self) = Buf(res.other)
    /\ \E i \in 1..Len(Buf(res.self)) : Buf(res.self)[i] # 0

\* C8: an array taken with ensure_copy false reads the wrapper's current
\* values whatever in-place operations came after it; an array taken with
\* ensure_copy true reads the values the wrapper had when it was taken.
C8_ViewTracksCopyKeeps ==
    arr.owner # None =>
        /\ (~arr.ensure_copy => ArrayRead(arr) = Buf(arr.owner))
        /\ (arr.ensure_copy => ArrayRead(arr) = arr.exported)

\* a view whose wrapper has just been changed in place
C8_Witness ==
    /\ arr.owner # None
    /\ ~arr.ensure_copy
    /\ res.op \in InPlaceOps
    /\ res.err = NoErr
    /\ res.self = arr.owner
    /\ \E i \in 1..Len(Buf(arr.owner)) : Buf(arr.owner)[i] # 0

\* C9: whenever last_mu is set, the native solver holds the tuple of the
\* latest set_rhs_operator_params call, and a call invokes the native setter
\* exactly when its tuple differs from the tuple of the call before it.
C9_ParamsInSync ==
    /\ [](last_mu # NoMu => (impl_mu = last_mu /\ last_mu = requested))
    /\ [][n_req' = n_req + 1 =>
            /\ (requested' # requested => n_set' = n_set + 1)
            /\ (requested' = requested => n_set' = n_set)]_vars

\* a repeated request was skipped after the solver was stepped
C9_Witness ==
    /\ n_req = 3
    /\ n_set = 2
    /\ impl_time > 0
    /\ impl_mu = requested
    /\ impl_mu # DefaultMu

SolvePre ==
    /\ nt >= 1
    /\ 0 <= t_end - (nt - 1) * dt
    /\ t_end - (nt - 1) * dt <= dt
\* the length time step k (from 0) is to have
ExpectedLen(k) == IF k = nt - 1 THEN t_end - (nt - 1) * dt ELSE dt
\* the entry of the vector wrapper w holds
Val(w) == Buf(w)[1]

SolveResult ==
    /\ n = nt
    /\ Len(U) = nt + 1
    /\ Val(U[1]) = u0
    /\ \A k \in 1..nt :
          Val(U[k + 1]) = FullStep(Val(U[k]), k - 1, ExpectedLen(k - 1))
    /\ half =>
        /\ Len(U_half) = nt
        /\ \A k \in 1..nt :
              Val(U_half[k]) = HalfStep(Val(U[k]), k - 1, ExpectedLen(k - 1))
    /\ elapsed = t_end
    /\ returned = IF half THEN <<U, U_half>> ELSE <<U>>

\* _solve has returned or raised
SolveEnded == pc \in {"done", "aborted", "raised"}

\* nothing but the two copies of the initial data was made
NoStepTaken == n = 0 /\ elapsed = 0 /\ Len(U) <= 1 /\ U_half = <<>>

\* C10 as stated: for nt >= 1 and 0 <= t_end - (nt-1)*dt <= dt, whatever
\* else _solve is given, it ends after exactly nt time steps with U the
\* initial vector followed by the nt step results in order, U_half the nt
\* half steps when they are asked for, every step of length dt but the last
\* of length t_end - (nt-1)*dt, the lengths adding up to t_end; for nt >= 1
\* without that condition it stops at its assertion on the last step length
\* with no step taken.  It ends, and the invariants say how it can end.
C10_AsStated ==
    /\ []((SolvePre /\ pc = "done") => SolveResult)
    /\ [](SolvePre => (pc \notin {"aborted", "raised"} /\ n <= nt))
    /\ []((nt >= 1 /\ ~SolvePre) => (pc \in {"start", "aborted"} /\ NoStepTaken))
    /\ <>SolveEnded

\* C10, amended: the same for every solve that is given a parameter mu other
\* than None.
C10_SolveSteps ==
    /\ []((solve_mu # NoMu /\ SolvePre /\ pc = "done") => SolveResult)
    /\ []((solve_mu # NoMu /\ SolvePre) =>
            (pc \notin {"aborted", "raised"} /\ n <= nt))
    /\ []((solve_mu # NoMu /\ nt >= 1 /\ ~SolvePre) =>
            (pc \in {"start", "aborted"} /\ NoStepTaken))
    /\ (solve_mu # NoMu => <>SolveEnded)

\* a solve of several steps with a shorter last step and half steps
\* returned, by a discretization DuneDiscretization.__init__ has built
C10_Witness ==
    /\ pc = "done"
    /\ entry = Dune
    /\ nt >= 2
    /\ final_dt > 0
    /\ final_dt < dt
    /\ half
    /\ lfc = 1
    /\ rhsc = 1
    /\ Len(U_half) = nt
    /\ n_req = nt + 1
    /\ last_mu = solve_mu
    /\ solve_mu # ZeroMu
====
